---- MODULE Spec2Model ----
(***************************************************************************)
(* nescore: the cycle-accurate 6502 instruction engine (src/src/cpu.rs)    *)
(* running on the flat Memory store (src/src/memory.rs), the region-       *)
(* decoding Bus (src/src/bus.rs) and the iNES cartridge loader             *)
(* (src/src/rom/mod.rs).                                                   *)
(*                                                                         *)
(* The CPU object is the record [memory, registers, cycle, op] of the      *)
(* variables below.  A Rust panic unwinds out of the running call and      *)
(* leaves the object as mutated so far: `fault` holds the panic message    *)
(* ("none" while the program is alive) and no operation runs after it.     *)
(* `overflow_checks` is the build profile: with it (debug, test) an        *)
(* integer overflow panics, without it (release) it wraps.                 *)
(* `bus` is the Bus object, `reader` the input stream handed to the iNES   *)
(* loader and `rom` what the loader returned; `call` records a function    *)
(* that was called directly.                                               *)
(***************************************************************************)
EXTENDS Integers, Naturals, Sequences, FiniteSets, TLC

VARIABLES memory, registers, cycle, op, fault, overflow_checks, call,
          bus, reader, rom

vars == <<memory, registers, cycle, op, fault, overflow_checks, call,
          bus, reader, rom>>

(* ------------------------------ bounds -------------------------------- *)

\* instructions in an initial program image
MaxInstr == 3
\* ticks the driver performs on a low program image
MaxTicks == 12
\* ticks the driver performs on an image whose program ends the address space
TopTicks == 65537

(* ------------------------------ bytes --------------------------------- *)

Byte == 0..255

\* u8 & u8, bit by bit
BitAnd(a, b) ==
    (a % 2) * (b % 2)
    + 2 * (((a \div 2) % 2) * ((b \div 2) % 2))
    + 4 * (((a \div 4) % 2) * ((b \div 4) % 2))
    + 8 * (((a \div 8) % 2) * ((b \div 8) % 2))
    + 16 * (((a \div 16) % 2) * ((b \div 16) % 2))
    + 32 * (((a \div 32) % 2) * ((b \div 32) % 2))
    + 64 * (((a \div 64) % 2) * ((b \div 64) % 2))
    + 128 * (((a \div 128) % 2) * ((b \div 128) % 2))

\* u8 | u8
BitOr(a, b) == a + b - BitAnd(a, b)

\* u8 ^ u8
BitXor(a, b) == a + b - 2 * BitAnd(a, b)

\* !u8
BitNot(a) == 255 - a

(* ------------------------------ Memory -------------------------------- *)

\* Memory.data is a Vec<u8> of exactly MemSize bytes; `memory` keeps the
\* bytes that were stored explicitly, every other index below MemSize holds
\* the 0 that resize() filled in.
MemSize == 65535

Cell(m, i) == IF i \in DOMAIN m THEN m[i] ELSE 0

\* Memory::from_buffer: the image `initial` (index -> byte, zero elsewhere),
\* cut to MemSize bytes by resize()
from_buffer(initial) == [i \in {j \in DOMAIN initial : j < MemSize} |-> initial[i]]

\* the index of data that Memory::read8 reads for addr
read8_index(addr) ==
    IF addr >= 2048 /\ addr < 8192 THEN addr % 2048
    ELSE IF addr >= 8192 /\ addr < 16384 THEN addr + ((addr - 8192) % 8)
    ELSE addr

\* Memory::read8: [ok, val, msg]; indexing past the end of data panics
Memory_read8(m, addr) ==
    IF read8_index(addr) < MemSize
    THEN [ok |-> TRUE, val |-> Cell(m, read8_index(addr)), msg |-> "none"]
    ELSE [ok |-> FALSE, val |-> 0, msg |-> "index out of bounds"]

\* the indices of data that Memory::write8 stores val at: addr itself, then
\* the four RAM images, or every eighth index from addr + (addr - 0x2000) % 8
\* up to 0x4000
write8_indices(addr) ==
    IF addr >= 2048 /\ addr < 8192
    THEN {addr, addr % 2048, (addr % 2048) + 2048, (addr % 2048) + 4096,
          (addr % 2048) + 6144}
    ELSE IF addr >= 8192 /\ addr < 16384
    THEN {addr} \cup {addr + ((addr - 8192) % 8) + 8 * k :
                        k \in 0..((16383 - (addr + ((addr - 8192) % 8))) \div 8)}
    ELSE {addr}

\* Memory::write8: [ok, mem, msg]; the first store, data[addr] = val, panics
\* when addr is past the end of data and nothing is written
Memory_write8(m, addr, val) ==
    IF addr < MemSize
    THEN LET written == write8_indices(addr)
         IN  [ok |-> TRUE,
              mem |-> [i \in written |-> val] @@ m,
              msg |-> "none"]
    ELSE [ok |-> FALSE, mem |-> m, msg |-> "index out of bounds"]

(* --------------------------- addressing ------------------------------- *)

\* enum Value
Invalid == [kind |-> "Invalid", addr |-> 0]
FromAccumulator == [kind |-> "FromAccumulator", addr |-> 0]
AtAddress(a) == [kind |-> "AtAddress", addr |-> a]

\* Value::get(&self, cpu): [ok, val, msg]
Value_get(v, c) ==
    IF v.kind = "FromAccumulator"
    THEN [ok |-> TRUE, val |-> c.registers.A, msg |-> "none"]
    ELSE IF v.kind = "AtAddress"
    THEN Memory_read8(c.memory, v.addr)
    ELSE [ok |-> FALSE, val |-> 0, msg |-> "Unable to read: location is invalid"]

\* faulty variant: Value::set with the Invalid location silently ignored; C10 does not hold of it
Value_set_silent(v, c, val) ==
    IF v.kind = "FromAccumulator"
    THEN [c EXCEPT !.registers.A = val]
    ELSE IF v.kind = "AtAddress"
    THEN LET w == Memory_write8(c.memory, v.addr, val)
         IN  IF w.ok THEN [c EXCEPT !.memory = w.mem] ELSE [c EXCEPT !.fault = w.msg]
    ELSE c

\* Value::set(&self, cpu, val): the CPU afterwards
Value_set(v, c, val) ==
    IF v.kind = "FromAccumulator"
    THEN [c EXCEPT !.registers.A = val]
    ELSE IF v.kind = "AtAddress"
    THEN LET w == Memory_write8(c.memory, v.addr, val)
         IN  IF w.ok THEN [c EXCEPT !.memory = w.mem] ELSE [c EXCEPT !.fault = w.msg]
    ELSE [c EXCEPT !.fault = "Unable to write: location is invalid"]

\* enum AddressMode
AddressModes == {"None", "Acc", "Imm", "Zp", "Zpx"}

\* struct AccessResult, with the panic of a failed memory read
AccessResult(v, n, off) ==
    [ok |-> TRUE, msg |-> "none", value |-> v, cycles |-> n, pc_offset |-> off]

AccessPanic(msg) ==
    [ok |-> FALSE, msg |-> msg, value |-> Invalid, cycles |-> 0, pc_offset |-> 0]

\* faulty variant: AddressMode::read with Immediate resolved one byte too far; C8 does not hold of it
AddressMode_read_next(mode, c) ==
    LET b == Memory_read8(c.memory, c.registers.PC)
    IN  CASE mode = "None" -> AccessResult(Invalid, 1, 0)
          [] mode = "Acc"  -> AccessResult(FromAccumulator, 2, 0)
          [] mode = "Imm"  -> AccessResult(AtAddress(c.registers.PC + 1), 2, 1)
          [] mode = "Zp"   -> IF b.ok THEN AccessResult(AtAddress(b.val), 3, 1)
                              ELSE AccessPanic(b.msg)
          [] mode = "Zpx"  -> IF b.ok
                              THEN AccessResult(AtAddress(b.val + c.registers.X), 4, 1)
                              ELSE AccessPanic(b.msg)

\* faulty variant: AddressMode::read with zero-page,X wrapped into the zero page; C9 does not hold of it
AddressMode_read_wrap(mode, c) ==
    LET b == Memory_read8(c.memory, c.registers.PC)
    IN  CASE mode = "None" -> AccessResult(Invalid, 1, 0)
          [] mode = "Acc"  -> AccessResult(FromAccumulator, 2, 0)
          [] mode = "Imm"  -> AccessResult(AtAddress(c.registers.PC), 2, 1)
          [] mode = "Zp"   -> IF b.ok THEN AccessResult(AtAddress(b.val), 3, 1)
                              ELSE AccessPanic(b.msg)
          [] mode = "Zpx"  -> IF b.ok
                              THEN AccessResult(AtAddress((b.val + c.registers.X) % 256), 4, 1)
                              ELSE AccessPanic(b.msg)

\* AddressMode::read(&self, cpu); the CPU is not written
AddressMode_read(mode, c) ==
    LET b == Memory_read8(c.memory, c.registers.PC)
    IN  CASE mode = "None" -> AccessResult(Invalid, 1, 0)
          [] mode = "Acc"  -> AccessResult(FromAccumulator, 2, 0)
          [] mode = "Imm"  -> AccessResult(AtAddress(c.registers.PC), 2, 1)
          [] mode = "Zp"   -> IF b.ok THEN AccessResult(AtAddress(b.val), 3, 1)
                              ELSE AccessPanic(b.msg)
          [] mode = "Zpx"  -> IF b.ok
                              THEN AccessResult(AtAddress(b.val + c.registers.X), 4, 1)
                              ELSE AccessPanic(b.msg)

(* ------------------------------ flags --------------------------------- *)

\* enum StatusFlags: the mask of each flag (One is the variant _1)
StatusFlags ==
    [C |-> 1, Z |-> 2, I |-> 4, D |-> 8, B |-> 16, One |-> 32, V |-> 64, N |-> 128]

\* Registers::get_flag
get_flag(r, flag) == BitAnd(r.PS, flag) > 0

\* faulty variant: setting a flag stores its mask as the whole status byte;
\* C22 does not hold of it
set_flag_assign(r, flag, is_set) ==
    IF is_set THEN [r EXCEPT !.PS = flag]
    ELSE [r EXCEPT !.PS = BitAnd(r.PS, BitNot(flag))]

\* Registers::set_flag
set_flag(r, flag, is_set) ==
    IF is_set THEN [r EXCEPT !.PS = BitOr(r.PS, flag)]
    ELSE [r EXCEPT !.PS = BitAnd(r.PS, BitNot(flag))]

(* --------------------------- instructions ----------------------------- *)

\* faulty variant: _adc with the carry-in left out of the sum; C3 does not hold of it
_adc_no_carry_in(c, arg) ==
    LET base    == c.registers.A
        g       == Value_get(arg, c)
        operand == g.val
        wide    == base + operand
        result  == wide % 256
        r1      == set_flag(c.registers, StatusFlags.C, wide > 255)
        r2      == set_flag(r1, StatusFlags.Z, result = 0)
        r3      == set_flag(r2, StatusFlags.V,
                            BitAnd(BitAnd(BitXor(operand, result), BitXor(result, r2.A)), 128) # 0)
        r4      == set_flag(r3, StatusFlags.N, BitAnd(result, 128) > 0)
    IN  IF ~g.ok THEN [c EXCEPT !.fault = g.msg]
        ELSE [c EXCEPT !.registers = [r4 EXCEPT !.A = result]]

\* faulty variant: _adc with the accumulator updated before the overflow test; C4 does not hold of it
_adc_late_overflow(c, arg) ==
    LET base    == c.registers.A
        g       == Value_get(arg, c)
        operand == g.val
        wide    == base + operand + (IF get_flag(c.registers, StatusFlags.C) THEN 1 ELSE 0)
        result  == wide % 256
        r1      == set_flag(c.registers, StatusFlags.C, wide > 255)
        r2      == set_flag(r1, StatusFlags.Z, result = 0)
        r3      == set_flag(r2, StatusFlags.V,
                            BitAnd(BitAnd(BitXor(operand, result), BitXor(result, result)), 128) # 0)
        r4      == set_flag(r3, StatusFlags.N, BitAnd(result, 128) > 0)
    IN  IF ~g.ok THEN [c EXCEPT !.fault = g.msg]
        ELSE [c EXCEPT !.registers = [r4 EXCEPT !.A = result]]

\* instructions::_adc(cpu, arg): the CPU afterwards
_adc(c, arg) ==
    LET base    == c.registers.A
        g       == Value_get(arg, c)
        operand == g.val
        wide    == base + operand + (IF get_flag(c.registers, StatusFlags.C) THEN 1 ELSE 0)
        result  == wide % 256
        r1      == set_flag(c.registers, StatusFlags.C, wide > 255)
        r2      == set_flag(r1, StatusFlags.Z, result = 0)
        r3      == set_flag(r2, StatusFlags.V,
                            BitAnd(BitAnd(BitXor(operand, result), BitXor(result, r2.A)), 128) # 0)
        r4      == set_flag(r3, StatusFlags.N, BitAnd(result, 128) > 0)
    IN  IF ~g.ok THEN [c EXCEPT !.fault = g.msg]
        ELSE [c EXCEPT !.registers = [r4 EXCEPT !.A = result]]

\* the semantic functions an Op can hold: the closure |_, _|{} of nop, and _adc
OpImpl(op_impl, c, operand) ==
    IF op_impl = "_adc" THEN _adc(c, operand) ELSE c

\* u16 += : panics with overflow checks, wraps without
AddU16(c, a, b) ==
    IF a + b < 65536 THEN [ok |-> TRUE, val |-> a + b]
    ELSE IF c.overflow_checks THEN [ok |-> FALSE, val |-> a]
    ELSE [ok |-> TRUE, val |-> (a + b) % 65536]

\* faulty variant: Op::new without the program-counter advance; C5 does not hold of it
Op_new_no_advance(c, op_impl, addr_mode) ==
    LET result == AddressMode_read(addr_mode, c)
    IN  IF ~result.ok THEN [cpu |-> [c EXCEPT !.fault = result.msg], op |-> <<>>]
        ELSE [cpu |-> c,
              op  |-> <<[op_impl |-> op_impl, operand |-> result.value,
                         total_cycles |-> result.cycles, cycle |-> 0]>>]

\* Op::new(cpu, op_impl, addr_mode): [cpu, op]; op is <<>> when it panicked
Op_new(c, op_impl, addr_mode) ==
    LET result == AddressMode_read(addr_mode, c)
        pc     == AddU16(c, c.registers.PC, result.pc_offset)
    IN  IF ~result.ok THEN [cpu |-> [c EXCEPT !.fault = result.msg], op |-> <<>>]
        ELSE IF ~pc.ok
        THEN [cpu |-> [c EXCEPT !.fault = "attempt to add with overflow"], op |-> <<>>]
        ELSE [cpu |-> [c EXCEPT !.registers.PC = pc.val],
              op  |-> <<[op_impl |-> op_impl, operand |-> result.value,
                         total_cycles |-> result.cycles, cycle |-> 0]>>]

\* faulty variant: OPCODE_MAP with adc_zp also at byte 0x65; C7 does not hold of it
OPCODE_MAP_0x65 ==
    [b \in 0..255 |-> CASE b = 86  -> "adc_zp"
                        [] b = 87  -> "adc_zpx"
                        [] b = 101 -> "adc_zp"
                        [] b = 105 -> "adc_imm"
                        [] OTHER   -> "nop"]

\* instructions::OPCODE_MAP: the factory of each of the 0x100 opcode bytes
OPCODE_MAP ==
    [b \in 0..255 |-> CASE b = 86  -> "adc_zp"
                        [] b = 87  -> "adc_zpx"
                        [] b = 105 -> "adc_imm"
                        [] OTHER   -> "nop"]

\* faulty variant: adc_imm built with AddressMode::None; C25 does not hold of it
Factory_adc_none(op_factory, c) ==
    CASE op_factory = "nop"     -> Op_new(c, "nop", "None")
      [] op_factory = "adc_imm" -> Op_new(c, "_adc", "None")
      [] op_factory = "adc_zp"  -> Op_new(c, "_adc", "Zp")
      [] op_factory = "adc_zpx" -> Op_new(c, "_adc", "Zpx")

\* instructions::nop, adc_imm, adc_zp, adc_zpx
Factory(op_factory, c) ==
    CASE op_factory = "nop"     -> Op_new(c, "nop", "None")
      [] op_factory = "adc_imm" -> Op_new(c, "_adc", "Imm")
      [] op_factory = "adc_zp"  -> Op_new(c, "_adc", "Zp")
      [] op_factory = "adc_zpx" -> Op_new(c, "_adc", "Zpx")

(* -------------------------------- CPU --------------------------------- *)

\* CPU::new: the registers
NewRegisters == [PC |-> 0, SP |-> 0, A |-> 0, X |-> 0, Y |-> 0, PS |-> 0]

\* faulty variant: read_op leaves the program counter on the opcode byte; C21
\* does not hold of it
read_op_no_advance(c) ==
    LET op_code == Memory_read8(c.memory, c.registers.PC)
    IN  IF ~op_code.ok THEN [cpu |-> [c EXCEPT !.fault = op_code.msg], op |-> <<>>]
        ELSE Factory(OPCODE_MAP[op_code.val], c)

\* CPU::read_op: [cpu, op]
read_op(c) ==
    LET op_code == Memory_read8(c.memory, c.registers.PC)
        pc      == AddU16(c, c.registers.PC, 1)
    IN  IF ~op_code.ok THEN [cpu |-> [c EXCEPT !.fault = op_code.msg], op |-> <<>>]
        ELSE IF ~pc.ok
        THEN [cpu |-> [c EXCEPT !.fault = "attempt to add with overflow"], op |-> <<>>]
        ELSE Factory(OPCODE_MAP[op_code.val], [c EXCEPT !.registers.PC = pc.val])

\* faulty variant: Op::tick committing one cycle early; C1 does not hold of it
Op_tick_early(o, c) ==
    LET o1 == [o EXCEPT !.cycle = @ + 1]
    IN  IF o1.cycle + 1 < o1.total_cycles THEN [done |-> FALSE, op |-> o1, cpu |-> c]
        ELSE [done |-> TRUE, op |-> o1, cpu |-> OpImpl(o1.op_impl, c, o1.operand)]

\* faulty variant: Op::tick committing one cycle late; C24 does not hold of it
Op_tick_late(o, c) ==
    LET o1 == [o EXCEPT !.cycle = @ + 1]
    IN  IF o1.cycle <= o1.total_cycles THEN [done |-> FALSE, op |-> o1, cpu |-> c]
        ELSE [done |-> TRUE, op |-> o1, cpu |-> OpImpl(o1.op_impl, c, o1.operand)]

\* Op::tick(&mut self, cpu): [done, op, cpu]
Op_tick(o, c) ==
    LET o1 == [o EXCEPT !.cycle = @ + 1]
    IN  IF o1.cycle < o1.total_cycles THEN [done |-> FALSE, op |-> o1, cpu |-> c]
        ELSE [done |-> TRUE, op |-> o1, cpu |-> OpImpl(o1.op_impl, c, o1.operand)]

\* CPU::tick: the CPU afterwards.  A panic in read_op leaves self.op None; a
\* panic in the semantic function happens after self.op.take()
tick(c) ==
    LET f == IF c.op = <<>> THEN read_op(c) ELSE [cpu |-> c, op |-> c.op]
        t == Op_tick(f.op[1], [f.cpu EXCEPT !.op = <<>>])
    IN  IF f.cpu.fault # "none" THEN f.cpu
        ELSE IF t.cpu.fault # "none" THEN t.cpu
        ELSE [t.cpu EXCEPT !.op = IF t.done THEN <<>> ELSE <<t.op>>,
                           !.cycle = @ + 1]

\* the CPU object in the current state
Cpu ==
    [memory |-> memory, registers |-> registers, cycle |-> cycle, op |-> op,
     fault |-> fault, overflow_checks |-> overflow_checks]

\* the variables take the fields of the CPU object c
Becomes(c) ==
    /\ memory' = c.memory
    /\ registers' = c.registers
    /\ cycle' = c.cycle
    /\ op' = c.op
    /\ fault' = c.fault
    /\ overflow_checks' = overflow_checks

(* ------------------------- program images ----------------------------- *)

\* opcode bytes with no defined instruction, used to build programs
NopBytes == {0, 234}
\* operand bytes of ADC #imm
Operands == {0, 1, 2, 3, 4, 127, 255}
\* operand bytes of ADC zp and ADC zp,X: zero-page addresses inside the program
ZpBytes == {1, 3}

Instrs ==
    {<<b>> : b \in NopBytes} \cup {<<105, v>> : v \in Operands}
    \cup {<<86, z>> : z \in ZpBytes} \cup {<<87, z>> : z \in ZpBytes}

RECURSIVE Flatten(_)
Flatten(p) == IF p = <<>> THEN <<>> ELSE Head(p) \o Flatten(Tail(p))

\* the byte vectors handed to Memory::from_buffer: MaxInstr instructions, or
\* any one opcode byte followed by an operand byte
Programs ==
    {Flatten(p) : p \in [1..MaxInstr -> Instrs]}
    \cup {<<b, v>> : b \in Byte, v \in Operands}

\* the vector `bytes` placed after `base` zero bytes, as index -> byte
Image(base, bytes) == [i \in base..(base + Len(bytes) - 1) |-> bytes[i - base + 1]]

\* `call`: the function a direct call invoked, with its arguments and what it
\* returned; NoCall while nothing was called directly
NoCall ==
    [fn |-> "none", mode |-> "None", value |-> Invalid, val |-> 0,
     result |-> AccessPanic("none"), got |-> 0, addr |-> 0, n |-> 0,
     str |-> <<>>]

\* `bus`, `reader` and `rom` where no Bus was constructed and no cartridge
\* image is being loaded
NoBus == [ram |-> <<>>, ppu |-> <<>>, apu |-> <<>>]
NoReader == [header |-> <<>>, len |-> 0, pos |-> 0]
NoRom == [status |-> "none", rom |-> <<>>]
NoIO == bus = NoBus /\ reader = NoReader /\ rom = NoRom

\* the byte Memory::read8 finds at the program counter
OpcodeAtPC == Cell(memory, read8_index(registers.PC))

(* ------------------- Spec: the engine from CPU::new ------------------- *)

Init ==
    /\ memory \in {from_buffer(Image(0, p)) : p \in Programs}
    /\ registers = NewRegisters
    /\ cycle = 0
    /\ op = <<>>
    /\ fault = "none"
    /\ overflow_checks \in BOOLEAN
    /\ call = NoCall
    /\ NoIO

\* the driver calls cpu.tick()
Tick ==
    /\ fault = "none"
    /\ cycle < MaxTicks
    /\ Becomes(tick(Cpu))
    /\ call' = call
    /\ UNCHANGED <<bus, reader, rom>>

Next == Tick

Spec == Init /\ [][Next]_vars

(* ------- SpecTop: the engine from CPU::new, run to the top of memory ---- *)

\* the byte vectors whose last instruction starts at the last byte of data, or
\* one byte before it, after a run of zero bytes (no-ops)
TopImages ==
    {Image(MemSize - 1, <<b, 1>>) : b \in {0, 86, 105}}
    \cup {Image(MemSize - 2, <<105, 1>>)}

InitTop ==
    /\ memory \in {from_buffer(i) : i \in TopImages}
    /\ registers = NewRegisters
    /\ cycle = 0
    /\ op = <<>>
    /\ fault = "none"
    /\ overflow_checks \in BOOLEAN
    /\ call = NoCall
    /\ NoIO

\* the driver calls cpu.tick()
TickTop ==
    /\ fault = "none"
    /\ cycle < TopTicks
    /\ Becomes(tick(Cpu))
    /\ call' = call
    /\ UNCHANGED <<bus, reader, rom>>

NextTop == TickTop

SpecTop == InitTop /\ [][NextTop]_vars

(* ------------- SpecAdc: instructions::_adc on drawn inputs ------------ *)

\* status bytes: carry clear and set, the other bits all clear and all set
StatusSamples == {0, 1, 254, 255}

\* every accumulator, every operand byte (stored at address 16), the status
\* samples
InitAdc ==
    /\ memory \in {16 :> m : m \in Byte}
    /\ registers \in {[NewRegisters EXCEPT !.A = a, !.PS = p] :
                        a \in Byte, p \in StatusSamples}
    /\ cycle = 0
    /\ op = <<>>
    /\ fault = "none"
    /\ overflow_checks = TRUE
    /\ call = NoCall
    /\ NoIO

\* _adc(cpu, arg) is called once, on the memory operand or on the accumulator
\* (the accumulator call reads no memory: it is made where the byte is 0)
CallAdc ==
    \E arg \in {AtAddress(16)} \cup (IF Cell(memory, 16) = 0 THEN {FromAccumulator} ELSE {}) :
        /\ call.fn = "none"
        /\ Becomes(_adc(Cpu, arg))
        /\ call' = [call EXCEPT !.fn = "_adc", !.value = arg]
        /\ UNCHANGED <<bus, reader, rom>>

NextAdc == CallAdc

SpecAdc == InitAdc /\ [][NextAdc]_vars

\* the operand byte M of the call that the step makes
OperandM == IF call'.value.kind = "AtAddress" THEN Cell(memory, 16) ELSE registers.A

\* the carry-in c of the call that the step makes
CarryIn == registers.PS % 2

\* a byte as a two's-complement number
Signed(b) == IF b >= 128 THEN b - 256 ELSE b

\* C3 (result and C/Z/N): committing add-with-carry on accumulator A, operand
\* M and carry-in c leaves the accumulator (A + M + c) mod 256, Carry set iff
\* A + M + c > 0xFF, Zero set iff the new accumulator is 0 and Negative set
\* iff bit 7 of the new accumulator is 1.
C3_AdcResult ==
    [][(call'.fn = "_adc" /\ call.fn = "none") =>
            LET wide == registers.A + OperandM + CarryIn
            IN  /\ fault' = "none"
                /\ registers'.A = wide % 256
                /\ (registers'.PS % 2 = 1) <=> (wide > 255)
                /\ ((registers'.PS \div 2) % 2 = 1) <=> (registers'.A = 0)
                /\ (registers'.PS \div 128 = 1) <=> (registers'.A \div 128 = 1)
      ]_vars

\* C3 witness: 0xFF + 0x00 + carry has been added: accumulator 0, Carry and
\* Zero set, Negative clear
C3_Witness ==
    /\ call.fn = "_adc"
    /\ call.value = AtAddress(16)
    /\ Cell(memory, 16) = 0
    /\ registers.A = 0
    /\ registers.PS % 4 = 3
    /\ registers.PS < 128

\* C4 (overflow): after the commit Overflow is set iff
\* (M XOR R) AND (R XOR A) AND 0x80 is non-zero, R the new accumulator and A
\* the old one, which is so iff signed(A) + signed(M) + c is outside
\* [-128, 127]; adding 0x7F to the initial registers leaves 0x7F with no flag,
\* and adding 0x01 to that leaves -128 with Overflow set.
C4_AdcOverflow ==
    [][(call'.fn = "_adc" /\ call.fn = "none") =>
            LET A == registers.A
                M == OperandM
                R == registers'.A
                V == (registers'.PS \div 64) % 2 = 1
            IN  /\ V <=> (BitAnd(BitAnd(BitXor(M, R), BitXor(R, A)), 128) # 0)
                /\ V <=> (Signed(A) + Signed(M) + CarryIn \notin (-128)..127)
                /\ (A = 0 /\ registers.PS = 0 /\ M = 127) =>
                        (R = 127 /\ registers'.PS = 0)
                /\ (A = 127 /\ registers.PS = 0 /\ M = 1) => (Signed(R) = -128 /\ V)
      ]_vars

\* C4 witness: 0x01 has been added to 0x7F: accumulator 0x80, Overflow set
C4_Witness ==
    /\ call.fn = "_adc"
    /\ call.value = AtAddress(16)
    /\ Cell(memory, 16) = 1
    /\ registers.A = 128
    /\ (registers.PS \div 64) % 2 = 1


(* ---- SpecAddr: AddressMode::read, Value::get and Value::set on drawn ---- *)
(* ---- CPU states                                                      ---- *)

\* program counters: low RAM, a RAM mirror, the graphics-register range, and
\* the last two addresses
PcSamples == {0, 16, 2049, 8193, 65534, 65535}
\* X registers
XSamples == {0, 1, 127, 128, 255}
\* accumulators
ASamples == {0, 90}

\* every byte b as the byte read8 finds at the program counter (none at
\* 65535, past the end of data), the PC, X and A samples
InitAddr ==
    /\ \E pc \in PcSamples, b \in Byte, x \in XSamples, a \in ASamples :
        /\ memory = from_buffer(Image(read8_index(pc), <<b>>))
        /\ registers = [NewRegisters EXCEPT !.PC = pc, !.X = x, !.A = a]
    /\ cycle = 0
    /\ op = <<>>
    /\ fault = "none"
    /\ overflow_checks = TRUE
    /\ call = NoCall
    /\ NoIO

\* addr_mode.read(cpu) is called once
CallRead ==
    \E mode \in AddressModes :
        /\ call.fn = "none"
        /\ call' = [call EXCEPT !.fn = "read", !.mode = mode,
                                !.result = AddressMode_read(mode, Cpu)]
        /\ fault' = call'.result.msg
        /\ UNCHANGED <<memory, registers, cycle, op, overflow_checks>>
        /\ UNCHANGED <<bus, reader, rom>>

\* the operand locations tried: each variant, the address being the PC
ValueSamples == {Invalid, FromAccumulator, AtAddress(registers.PC)}

\* value.get(cpu) is called once
CallGet ==
    \E v \in ValueSamples :
        LET g == Value_get(v, Cpu)
        IN  /\ call.fn = "none"
            /\ call' = [call EXCEPT !.fn = "get", !.value = v,
                                    !.got = IF g.ok THEN g.val ELSE @]
            /\ fault' = g.msg
            /\ UNCHANGED <<memory, registers, cycle, op, overflow_checks>>
            /\ UNCHANGED <<bus, reader, rom>>

\* value.set(cpu, val) is called once
CallSet ==
    \E v \in ValueSamples, val \in {51} :
        /\ call.fn = "none"
        /\ Becomes(Value_set(v, Cpu, val))
        /\ call' = [call EXCEPT !.fn = "set", !.value = v, !.val = val]
        /\ UNCHANGED <<bus, reader, rom>>

NextAddr == CallRead \/ CallGet \/ CallSet

SpecAddr == InitAddr /\ [][NextAddr]_vars

\* a byte is stored at the program counter
ByteAtPC == read8_index(registers.PC) < MemSize

\* C8 (addressing-mode contract): resolving a mode changes no register and no
\* memory and yields: None -> no operand, 1 cycle, 0 bytes; Accumulator ->
\* the accumulator, 2 cycles, 0 bytes; Immediate -> the address equal to the
\* program counter, 2 cycles, 1 byte; Zero-page, a byte being stored at the
\* program counter -> the address equal to that byte, in [0x00, 0xFF],
\* 3 cycles, 1 byte.
C8_AddressModes ==
    [][(call'.fn = "read" /\ call.fn = "none") =>
            LET r == call'.result
            IN  /\ registers' = registers
                /\ memory' = memory
                /\ call'.mode = "None" =>
                      r = [ok |-> TRUE, msg |-> "none", value |-> Invalid,
                           cycles |-> 1, pc_offset |-> 0]
                /\ call'.mode = "Acc" =>
                      r = [ok |-> TRUE, msg |-> "none", value |-> FromAccumulator,
                           cycles |-> 2, pc_offset |-> 0]
                /\ call'.mode = "Imm" =>
                      r = [ok |-> TRUE, msg |-> "none",
                           value |-> [kind |-> "AtAddress", addr |-> registers.PC],
                           cycles |-> 2, pc_offset |-> 1]
                /\ (call'.mode = "Zp" /\ ByteAtPC) =>
                      /\ r = [ok |-> TRUE, msg |-> "none",
                              value |-> [kind |-> "AtAddress", addr |-> OpcodeAtPC],
                              cycles |-> 3, pc_offset |-> 1]
                      /\ r.value.addr \in 0..255
      ]_vars

\* C8 witness: zero-page has been resolved to the address 0xFF stored at the
\* program counter
C8_Witness ==
    /\ call.fn = "read"
    /\ call.mode = "Zp"
    /\ call.result.ok
    /\ call.result.value = AtAddress(255)
    /\ registers.PC = 16

\* C9 (zero-page,X): with operand byte b at the program counter and X
\* register x the resolved address is b + x, a value in [0x0000, 0x01FE] that
\* is above 0xFF whenever b + x is, at 4 cycles and 1 extra byte.
C9_ZeroPageX ==
    [][(call'.fn = "read" /\ call.fn = "none" /\ call'.mode = "Zpx" /\ ByteAtPC) =>
            LET r == call'.result
            IN  /\ r.ok
                /\ r.value.kind = "AtAddress"
                /\ r.value.addr = OpcodeAtPC + registers.X
                /\ r.value.addr \in 0..510
                /\ (OpcodeAtPC + registers.X > 255) => (r.value.addr > 255)
                /\ r.cycles = 4
                /\ r.pc_offset = 1
      ]_vars

\* C9 witness: zero-page,X has been resolved with b = 0xFF and x = 0xFF to the
\* address 0x01FE, outside the zero page
C9_Witness ==
    /\ call.fn = "read"
    /\ call.mode = "Zpx"
    /\ registers.X = 255
    /\ call.result.value = AtAddress(510)

\* C10 (invalid operand): a get or a set of the Invalid location panics: it
\* returns no value, and leaves the registers and memory as they were.
C10_InvalidOperand ==
    [][(call'.fn \in {"get", "set"} /\ call.fn = "none" /\ call'.value = Invalid) =>
            /\ fault' # "none"
            /\ call'.got = call.got
            /\ registers' = registers
            /\ memory' = memory
      ]_vars

\* C10 witness: a set of the Invalid location has panicked
C10_Witness ==
    /\ call.fn = "set"
    /\ call.value = Invalid
    /\ fault = "Unable to write: location is invalid"


(* ----------------------- claims about the engine ---------------------- *)

\* C1 (cycle accuracy): a tick that leaves an instruction in flight (ticks
\* 1..n-1 of a budget n >= 2) changes neither the accumulator nor the status
\* byte, so both keep the values they had before the instruction started; the
\* tick that ends an in-flight instruction is its tick n and applies its
\* semantic function (add-with-carry on the operand resolved at fetch) once;
\* and a tick that fetches and ends an instruction at once (budget 1) applies
\* nothing.
C1_CycleAccuracy ==
    [][/\ op' # <<>> =>
            /\ op'[1].total_cycles >= 2
            /\ op'[1].cycle \in 1..(op'[1].total_cycles - 1)
            /\ registers'.A = registers.A
            /\ registers'.PS = registers.PS
       /\ (op # <<>> /\ op' = <<>> /\ fault' = "none") =>
            /\ op[1].cycle + 1 = op[1].total_cycles
            /\ op[1].op_impl = "_adc"
            /\ registers' = _adc(Cpu, op[1].operand).registers
       /\ (op = <<>> /\ op' = <<>>) =>
            /\ registers'.A = registers.A
            /\ registers'.PS = registers.PS
      ]_vars

\* C1 witness: a zero-page,X add (budget 4) after its third tick, the
\* accumulator still holding the non-zero sum of the instruction before it
C1_Witness ==
    /\ op # <<>>
    /\ op[1].total_cycles = 4
    /\ op[1].cycle = 3
    /\ registers.A # 0

\* the cycle budget the claim gives the instruction selected by opcode byte b
Budget(b) == CASE b = 105 -> 2 [] b = 86 -> 3 [] b = 87 -> 4 [] OTHER -> 1

\* C2 (instruction lifetime): a tick in the idle state that fetches an
\* instruction of budget n leaves the engine idle when n = 1 and executing,
\* one cycle elapsed, when n >= 2; every later tick of that instruction
\* returns, leaving the engine executing after ticks 2..n-1 and idle after
\* tick n.
C2_Lifetime ==
    [][/\ (op = <<>> /\ fault' = "none") =>
            IF Budget(OpcodeAtPC) = 1 THEN op' = <<>>
            ELSE /\ op' # <<>>
                 /\ op'[1].cycle = 1
                 /\ op'[1].total_cycles = Budget(OpcodeAtPC)
       /\ op # <<>> =>
            /\ fault' = "none"
            /\ IF op[1].cycle + 1 < op[1].total_cycles
               THEN op' = <<[op[1] EXCEPT !.cycle = @ + 1]>>
               ELSE op' = <<>>
      ]_vars

\* the program states that add v1, v2, ... in immediate mode, k times
IsImmProgram(k) == \A i \in 0..(k - 1) : Cell(memory, read8_index(2 * i)) = 105

RECURSIVE ImmSum(_)
ImmSum(k) == IF k = 0 THEN 0 ELSE ImmSum(k - 1) + Cell(memory, read8_index(2 * k - 1))

\* C5 (accumulation): when memory holds k immediate adds from address 0 whose
\* running sums stay at most 0xFF, then after exactly 2k ticks the
\* accumulator is their sum, the program counter is 2k and the engine is idle.
C5_Accumulation ==
    \A k \in 1..MaxInstr :
        (/\ cycle = 2 * k
         /\ IsImmProgram(k)
         /\ \A j \in 1..k : ImmSum(j) <= 255)
        => /\ registers.A = ImmSum(k)
           /\ registers.PC = 2 * k
           /\ op = <<>>
           /\ fault = "none"

\* C5 witness: the program 0x69 2, 0x69 3, 0x69 4 after 6 ticks, accumulator 9
C5_Witness ==
    /\ cycle = 6
    /\ IsImmProgram(3)
    /\ Cell(memory, 1) = 2 /\ Cell(memory, 3) = 3 /\ Cell(memory, 5) = 4
    /\ registers.A = 9

\* C6 (as the claim states it): the unused status bit, mask 0b00100000, is set
\* in every state from CPU::new on.
C6_UnusedBitSet == BitAnd(registers.PS, StatusFlags.One) = StatusFlags.One

\* the opcode bytes with a defined instruction
DefinedOpcodes == {86, 87, 105}

\* C7 (dispatch default): the table has one entry for each of the 256 byte
\* values, and a tick in the idle state whose opcode byte has no defined
\* instruction returns with the program counter one higher, every other
\* register, the status byte and memory unchanged, and the engine idle.
C7_DispatchDefault ==
    /\ DOMAIN OPCODE_MAP = 0..255
    /\ [][(op = <<>> /\ fault' = "none" /\ OpcodeAtPC \notin DefinedOpcodes) =>
            /\ registers' = [registers EXCEPT !.PC = @ + 1]
            /\ memory' = memory
            /\ op' = <<>>
            /\ cycle' = cycle + 1
         ]_vars

\* C7 witness: opcode byte 0xFF at address 0 has run as a no-op in one tick
C7_Witness ==
    /\ Cell(memory, 0) = 255
    /\ cycle = 1
    /\ op = <<>>
    /\ registers.PC = 1
    /\ fault = "none"

(* ------------- SpecBatch: CPU::ticks against CPU::tick ---------------- *)

\* the largest n handed to CPU::ticks
MaxBatch == 4

\* faulty variant: a batch runs one tick whatever n is; C11 does not hold of it
ticks_once(c, n) == IF n = 0 THEN c ELSE tick(c)

\* CPU::ticks: for _ in 0..n { self.tick(); }; a panic of one tick unwinds out
\* of the loop
RECURSIVE ticks(_, _)
ticks(c, n) ==
    IF n = 0 \/ c.fault # "none" THEN c ELSE ticks(tick(c), n - 1)

\* two-instruction programs
BatchPrograms == {Flatten(<<i, j>>) : i \in Instrs, j \in Instrs}

InitBatch ==
    /\ memory \in {from_buffer(Image(0, p)) : p \in BatchPrograms}
    /\ registers = NewRegisters
    /\ cycle = 0
    /\ op = <<>>
    /\ fault = "none"
    /\ overflow_checks \in BOOLEAN
    /\ call = NoCall
    /\ NoIO

\* the driver calls cpu.ticks(n), once in a run, after any number of
\* cpu.tick() calls
Ticks ==
    \E n \in 0..MaxBatch :
        /\ fault = "none"
        /\ call.fn = "none"
        /\ cycle + n <= MaxTicks
        /\ Becomes(ticks(Cpu, n))
        /\ call' = [call EXCEPT !.fn = "ticks", !.n = n]
        /\ UNCHANGED <<bus, reader, rom>>

NextBatch == Tick \/ Ticks

SpecBatch == InitBatch /\ [][NextBatch]_vars

\* the CPU object after n successive cpu.tick() calls made by a driver that a
\* panic stops
RECURSIVE Successive(_, _)
Successive(c, n) ==
    IF n = 0 THEN c
    ELSE Successive(IF c.fault = "none" THEN tick(c) ELSE c, n - 1)

\* C11: from every CPU state, idle or mid-instruction, and for every n >= 0,
\* the state after ticks(n) (memory, registers with the status byte, the
\* in-flight instruction with its elapsed and total cycles, the cycle counter)
\* is the state after n successive tick() calls; ticks(0) changes nothing.
C11_TicksRefinesTick ==
    [][(call.fn = "none" /\ call'.fn = "ticks") =>
            /\ Cpu' = Successive(Cpu, call'.n)
            /\ (call'.n = 0 => Cpu' = Cpu)
            /\ (fault' = "none" => cycle' = cycle + call'.n)
      ]_vars

\* C11 witness: a batch of three ticks started inside a zero-page add has
\* finished it and left the next instruction in flight
C11_Witness ==
    /\ call.fn = "ticks"
    /\ call.n = 3
    /\ cycle = 5
    /\ op # <<>>
    /\ op[1].cycle = 1
    /\ registers.A # 0

(* ------------------------------ Bus ----------------------------------- *)

\* vec![0; n]: n zero bytes, the non-zero ones held as index -> byte
Vec(n) == [len |-> n, data |-> <<>>]

\* v[i]: the byte, or the panic of an index past the end
Vec_index(v, i) ==
    IF i < v.len THEN [ok |-> TRUE, val |-> Cell(v.data, i), msg |-> "none"]
    ELSE [ok |-> FALSE, val |-> 0, msg |-> "index out of bounds"]

\* v[i] = val: the vector, or the panic of an index past the end
Vec_assign(v, i, val) ==
    IF i < v.len
    THEN [ok |-> TRUE, vec |-> [v EXCEPT !.data = (i :> val) @@ @], msg |-> "none"]
    ELSE [ok |-> FALSE, vec |-> v, msg |-> "index out of bounds"]

\* Bus::new
Bus_new == [ram |-> Vec(2048), ppu |-> Vec(8), apu |-> Vec(18)]

\* todo!(msg)
Todo(msg) == [ok |-> FALSE, val |-> 0, msg |-> msg]

\* faulty variant: the RAM index is not reduced to the 2 KiB image; C12 does
\* not hold of it
Bus_read8_flat(b, addr) ==
    IF addr < 8192 THEN [ok |-> TRUE, val |-> Cell(b.ram.data, addr), msg |-> "none"]
    ELSE IF addr < 16384 THEN Vec_index(b.ppu, (addr - 8192) % 8)
    ELSE IF addr < 16408 THEN Vec_index(b.apu, addr - 16384)
    ELSE Todo("not implemented")

\* Bus::read8
Bus_read8(b, addr) ==
    IF addr < 8192 THEN Vec_index(b.ram, addr % 2048)
    ELSE IF addr < 16384 THEN Vec_index(b.ppu, (addr - 8192) % 8)
    ELSE IF addr < 16408 THEN Vec_index(b.apu, addr - 16384)
    ELSE IF addr < 16416 THEN Todo("CPU Test Mode is not implemented")
    ELSE Todo("Cartrige is not implemented")

\* the outcome of a bus write: the Bus after it and the panic message
Written(b, msg) == [bus |-> b, msg |-> msg]

\* faulty variant: a PPU write indexes the registers by the offset into the
\* range, not by the offset modulo 8; C13 does not hold of it
Bus_write8_ppu_flat(b, addr, val) ==
    IF addr < 8192
    THEN LET w == Vec_assign(b.ram, addr % 2048, val)
         IN  Written([b EXCEPT !.ram = w.vec], w.msg)
    ELSE IF addr < 16384
    THEN LET w == Vec_assign(b.ppu, addr - 8192, val)
         IN  Written([b EXCEPT !.ppu = w.vec], w.msg)
    ELSE IF addr < 16408
    THEN LET w == Vec_assign(b.apu, addr - 16384, val)
         IN  Written([b EXCEPT !.apu = w.vec], w.msg)
    ELSE IF addr < 16416 THEN Written(b, "CPU Test Mode is not implemented")
    ELSE Written(b, "Cartrige is not implemented")

\* faulty variant: a write to the cartridge range is dropped silently; C16
\* does not hold of it
Bus_write8_open(b, addr, val) ==
    IF addr < 8192
    THEN LET w == Vec_assign(b.ram, addr % 2048, val)
         IN  Written([b EXCEPT !.ram = w.vec], w.msg)
    ELSE IF addr < 16384
    THEN LET w == Vec_assign(b.ppu, (addr - 8192) % 8, val)
         IN  Written([b EXCEPT !.ppu = w.vec], w.msg)
    ELSE IF addr < 16408
    THEN LET w == Vec_assign(b.apu, addr - 16384, val)
         IN  Written([b EXCEPT !.apu = w.vec], w.msg)
    ELSE IF addr < 16416 THEN Written(b, "CPU Test Mode is not implemented")
    ELSE Written(b, "none")

\* Bus::write8
Bus_write8(b, addr, val) ==
    IF addr < 8192
    THEN LET w == Vec_assign(b.ram, addr % 2048, val)
         IN  Written([b EXCEPT !.ram = w.vec], w.msg)
    ELSE IF addr < 16384
    THEN LET w == Vec_assign(b.ppu, (addr - 8192) % 8, val)
         IN  Written([b EXCEPT !.ppu = w.vec], w.msg)
    ELSE IF addr < 16408
    THEN LET w == Vec_assign(b.apu, addr - 16384, val)
         IN  Written([b EXCEPT !.apu = w.vec], w.msg)
    ELSE IF addr < 16416 THEN Written(b, "CPU Test Mode is not implemented")
    ELSE Written(b, "Cartrige is not implemented")

\* Bus::read16: the low byte at addr, then the high byte at addr + 1 (the
\* read at addr panics for every addr whose successor is past 0xFFFF);
\* l | (h << 8) of two bytes is l + 256 * h
Bus_read16(b, addr) ==
    LET l == Bus_read8(b, addr)
        h == Bus_read8(b, addr + 1)
    IN  IF ~l.ok THEN l
        ELSE IF ~h.ok THEN h
        ELSE [ok |-> TRUE, val |-> l.val + (h.val * 256), msg |-> "none"]

\* Bus::write16: the low byte to addr, then the high byte to addr + 1
Bus_write16(b, addr, val) ==
    LET lo == Bus_write8(b, addr, val % 256)
    IN  IF lo.msg # "none" THEN lo
        ELSE Bus_write8(lo.bus, addr + 1, val \div 256)

\* a UTF-8 continuation byte in lo..hi
Cont(bytes, i, lo, hi) == i <= Len(bytes) /\ bytes[i] >= lo /\ bytes[i] <= hi

\* String::from_utf8 accepts the bytes from position i on: one well-formed
\* scalar value after another (no overlong form, no surrogate, none past
\* U+10FFFF)
RECURSIVE IsUtf8(_, _)
IsUtf8(bytes, i) ==
    IF i > Len(bytes) THEN TRUE
    ELSE LET b == bytes[i]
         IN  IF b < 128 THEN IsUtf8(bytes, i + 1)
             ELSE IF b >= 194 /\ b <= 223
             THEN Cont(bytes, i + 1, 128, 191) /\ IsUtf8(bytes, i + 2)
             ELSE IF b >= 224 /\ b <= 239
             THEN /\ Cont(bytes, i + 1, IF b = 224 THEN 160 ELSE 128,
                                        IF b = 237 THEN 159 ELSE 191)
                  /\ Cont(bytes, i + 2, 128, 191)
                  /\ IsUtf8(bytes, i + 3)
             ELSE IF b >= 240 /\ b <= 244
             THEN /\ Cont(bytes, i + 1, IF b = 240 THEN 144 ELSE 128,
                                        IF b = 244 THEN 143 ELSE 191)
                  /\ Cont(bytes, i + 2, 128, 191)
                  /\ Cont(bytes, i + 3, 128, 191)
                  /\ IsUtf8(bytes, i + 4)
             ELSE FALSE

\* the outcome of read_str: the bytes of the String, or the panic message
StrResult(ok, bytes, msg) == [ok |-> ok, bytes |-> bytes, msg |-> msg]

\* the loop of Bus::read_str: the bytes from read_addr up to the first zero
\* byte, appended to buf
RECURSIVE read_str_loop(_, _, _)
read_str_loop(b, read_addr, buf) ==
    IF read_addr > 65535
    THEN StrResult(FALSE, buf, "Failed to read null terminated string")
    ELSE LET r == Bus_read8(b, read_addr)
         IN  IF ~r.ok THEN StrResult(FALSE, buf, r.msg)
             ELSE IF r.val = 0 THEN StrResult(TRUE, buf, "none")
             ELSE read_str_loop(b, read_addr + 1, Append(buf, r.val))

\* Bus::read_str: the loop, then OsString::into_string().unwrap(), which
\* panics on bytes that are no UTF-8
Bus_read_str(b, addr) ==
    LET l == read_str_loop(b, addr, <<>>)
    IN  IF ~l.ok THEN l
        ELSE IF IsUtf8(l.bytes, 1) THEN l
        ELSE StrResult(FALSE, l.bytes, "called Result::unwrap() on an Err value")

(* ------------------- SpecBus: the Bus from Bus::new ------------------- *)

\* the most bus writes made in a run
MaxWrites == 2

\* addresses: the RAM image and its mirrors, the PPU range, the APU range
\* (its first byte, 0x4011, 0x4012 and its last), the test-mode range, the
\* cartridge range, the last address
BusAddrs ==
    {0, 2048, 6145, 8191, 8192, 8201, 16383, 16384, 16401, 16402, 16407,
     16408, 16416, 65535}

\* bytes: zero and the two bytes of U+00E9
BusBytes == {0, 169, 195}

\* words: 0x1234, and U+00E9 as a little-endian word
BusWords == {4660, 43459}

\* the addresses 16-bit values and strings are read from
WideAddrs == {0, 8191, 16383, 16401, 16407}

\* a read was made: a run is writes followed by one read (a read changes
\* nothing on the Bus)
HasRead == call.fn \in {"read8", "read16", "read_str"}

InitBus ==
    /\ bus = Bus_new
    /\ memory = <<>>
    /\ registers = NewRegisters
    /\ cycle = 0
    /\ op = <<>>
    /\ fault = "none"
    /\ overflow_checks = TRUE
    /\ call = NoCall
    /\ reader = NoReader
    /\ rom = NoRom

\* the variables no bus call touches
BusFrame == UNCHANGED <<memory, registers, cycle, op, overflow_checks, reader, rom>>

\* bus.write8(addr, val)
BusWrite8 ==
    \E addr \in BusAddrs, val \in BusBytes :
        LET w == Bus_write8(bus, addr, val)
        IN  /\ fault = "none"
            /\ ~HasRead
            /\ call.n < MaxWrites
            /\ bus' = w.bus
            /\ fault' = w.msg
            /\ call' = [NoCall EXCEPT !.fn = "write8", !.addr = addr,
                                      !.val = val, !.n = call.n + 1]
            /\ BusFrame

\* bus.write16(addr, val)
BusWrite16 ==
    \E addr \in BusAddrs, val \in BusWords :
        LET w == Bus_write16(bus, addr, val)
        IN  /\ fault = "none"
            /\ ~HasRead
            /\ call.n < MaxWrites
            /\ bus' = w.bus
            /\ fault' = w.msg
            /\ call' = [NoCall EXCEPT !.fn = "write16", !.addr = addr,
                                      !.val = val, !.n = call.n + 1]
            /\ BusFrame

\* bus.read8(addr)
BusRead8 ==
    \E addr \in BusAddrs :
        LET r == Bus_read8(bus, addr)
        IN  /\ fault = "none"
            /\ ~HasRead
            /\ fault' = r.msg
            /\ call' = [NoCall EXCEPT !.fn = "read8", !.addr = addr,
                                      !.got = r.val, !.n = call.n]
            /\ bus' = bus
            /\ BusFrame

\* bus.read16(addr)
BusRead16 ==
    \E addr \in WideAddrs :
        LET r == Bus_read16(bus, addr)
        IN  /\ fault = "none"
            /\ ~HasRead
            /\ fault' = r.msg
            /\ call' = [NoCall EXCEPT !.fn = "read16", !.addr = addr,
                                      !.got = r.val, !.n = call.n]
            /\ bus' = bus
            /\ BusFrame

\* bus.read_str(addr)
BusReadStr ==
    \E addr \in WideAddrs :
        LET r == Bus_read_str(bus, addr)
        IN  /\ fault = "none"
            /\ ~HasRead
            /\ fault' = r.msg
            /\ call' = [NoCall EXCEPT !.fn = "read_str", !.addr = addr,
                                      !.str = IF r.ok THEN r.bytes ELSE <<>>,
                                      !.n = call.n]
            /\ bus' = bus
            /\ BusFrame

NextBus == BusWrite8 \/ BusWrite16 \/ BusRead8 \/ BusRead16 \/ BusReadStr

SpecBus == InitBus /\ [][NextBus]_vars

\* C12: for every address a in [0x0000, 0x2000) and byte v, after any earlier
\* bus writes, Bus::write8(a, v) makes Bus::read8 return v at each of the
\* four images (a mod 0x800) + {0, 0x800, 0x1000, 0x1800}.
C12_BusRamMirrors ==
    [][(call'.fn = "write8" /\ call'.addr < 8192) =>
            \A k \in 0..3 :
                LET r == Bus_read8(bus', (call'.addr % 2048) + (k * 2048))
                IN  r.ok /\ r.val = call'.val
      ]_vars

\* C12 witness: the second write of a run stored 0xC3 through the mirror
\* address 0x1801, into the cell that address 0x0001 names
C12_Witness ==
    /\ call.fn = "write8"
    /\ call.addr = 6145
    /\ call.n = 2
    /\ Cell(bus.ram.data, 1) = 195
    /\ Cell(bus.ram.data, 0) # 0

\* C13: for every address a in [0x2000, 0x4000) and byte v, Bus::write8(a, v)
\* makes Bus::read8 return v at every address b of [0x2000, 0x4000) that is
\* congruent to a modulo 8.
C13_BusPpuMirrors ==
    [][(call'.fn = "write8" /\ call'.addr >= 8192 /\ call'.addr < 16384) =>
            \A b \in 8192..16383 :
                (b % 8) = (call'.addr % 8) =>
                    LET r == Bus_read8(bus', b)
                    IN  r.ok /\ r.val = call'.val
      ]_vars

\* C13 witness: 0xA9 was written through the last PPU address, 0x3FFF, into
\* register 7, after a write to another register
C13_Witness ==
    /\ call.fn = "write8"
    /\ call.addr = 16383
    /\ call.n = 2
    /\ Cell(bus.ppu.data, 7) = 169
    /\ Cell(bus.ppu.data, 1) # 0

\* C15: for every address a in [0x4000, 0x4018), Bus::write8(a, v) and
\* Bus::read8(a) complete without failure, a read after the write returns v,
\* and the write changes the value read at no other address.
C15_BusApuFlat ==
    [][(call'.fn \in {"write8", "read8"}
            /\ call'.addr >= 16384 /\ call'.addr < 16408) =>
            /\ fault' = "none"
            /\ call'.fn = "write8" =>
                /\ Bus_read8(bus', call'.addr).val = call'.val
                /\ \A b \in BusAddrs \ {call'.addr} :
                        Bus_read8(bus', b) = Bus_read8(bus, b)
      ]_vars

\* C16: for every address a in [0x4018, 0x10000), Bus::read8(a) and
\* Bus::write8(a, v) signal the fatal not-implemented condition instead of
\* returning, and leave the RAM, PPU and APU storage as it was.
C16_BusUnsupported ==
    [][(call'.fn \in {"write8", "read8"} /\ call'.addr >= 16408) =>
            /\ fault' \in {"CPU Test Mode is not implemented",
                            "Cartrige is not implemented"}
            /\ bus' = bus
      ]_vars

\* C16 witness: a write to 0xFFFF, after a write that stored a byte, has
\* stopped the program
C16_Witness ==
    /\ call.fn = "write8"
    /\ call.addr = 65535
    /\ call.val = 169
    /\ call.n = 2
    /\ fault = "Cartrige is not implemented"
    /\ bus # Bus_new

\* C17: for every address a with a and a + 1 in [0x0000, 0x4018) and every
\* 16-bit w, Bus::write16(a, w) completes and leaves read16(a) = w, read8(a)
\* the low byte and read8(a + 1) the high byte of w; it is the two byte
\* writes at a and a + 1, each decoded through the mirroring.
C17_BusWordRoundTrip ==
    [][(call'.fn = "write16" /\ call'.addr + 1 < 16408) =>
            LET a == call'.addr
                w == call'.val
            IN  /\ fault' = "none"
                /\ Bus_read16(bus', a) = [ok |-> TRUE, val |-> w, msg |-> "none"]
                /\ Bus_read8(bus', a).val = w % 256
                /\ Bus_read8(bus', a + 1).val = w \div 256
                /\ bus' = Bus_write8(Bus_write8(bus, a, w % 256).bus,
                                     a + 1, w \div 256).bus
      ]_vars

\* the longest run of non-zero bytes at consecutive addresses: a write stores
\* at most two, and a cell shows twice in a run only if its whole image is
\* non-zero
StrMax == 2 * MaxWrites

\* C18: Bus::read_str(addr) returns exactly the bytes read8(addr),
\* read8(addr + 1), ... up to but not including the first zero byte; where no
\* zero byte is found before a read fails or the address space ends, the call
\* fails instead of returning a string.
C18_BusReadStr ==
    [][call'.fn = "read_str" =>
            LET a == call'.addr
                ByteAt(k) == Bus_read8(bus, a + k)
                Ends(k) ==
                    /\ a + k <= 65535
                    /\ \A j \in 0..(k - 1) : ByteAt(j).ok /\ ByteAt(j).val # 0
                    /\ ByteAt(k).ok /\ ByteAt(k).val = 0
            IN  IF \E k \in 0..StrMax : Ends(k)
                THEN /\ fault' = "none"
                     /\ \E k \in 0..StrMax :
                            /\ Ends(k)
                            /\ call'.str = [j \in 1..k |-> ByteAt(j - 1).val]
                ELSE fault' # "none"
      ]_vars

(* ---------------- SpecMem: the Memory from Memory::new ----------------- *)

\* addresses: the RAM image and a mirror, PPU addresses of residue 0, 2, 0
\* and 1 modulo 8 and the last one, the first past the PPU range, the last
\* address
MemAddrs == {1, 2049, 8192, 8194, 8200, 16377, 16383, 16384, 65535}

\* bytes written
MemBytes == {0, 7, 42}

InitMem ==
    /\ memory = <<>>
    /\ registers = NewRegisters
    /\ cycle = 0
    /\ op = <<>>
    /\ fault = "none"
    /\ overflow_checks = TRUE
    /\ call = NoCall
    /\ NoIO

\* the variables no Memory call touches
MemFrame == UNCHANGED <<registers, cycle, op, overflow_checks, bus, reader, rom>>

\* memory.write8(addr, val)
MemWrite8 ==
    \E addr \in MemAddrs, val \in MemBytes :
        LET w == Memory_write8(memory, addr, val)
        IN  /\ fault = "none"
            /\ ~HasRead
            /\ call.n < MaxWrites
            /\ memory' = w.mem
            /\ fault' = w.msg
            /\ call' = [NoCall EXCEPT !.fn = "write8", !.addr = addr,
                                      !.val = val, !.n = call.n + 1]
            /\ MemFrame

\* memory.read8(addr)
MemRead8 ==
    \E addr \in MemAddrs :
        LET r == Memory_read8(memory, addr)
        IN  /\ fault = "none"
            /\ ~HasRead
            /\ memory' = memory
            /\ fault' = r.msg
            /\ call' = [NoCall EXCEPT !.fn = "read8", !.addr = addr,
                                      !.got = r.val, !.n = call.n]
            /\ MemFrame

NextMem == MemWrite8 \/ MemRead8

SpecMem == InitMem /\ [][NextMem]_vars

\* C14: for every address a in [0x2000, 0x4000) and byte v, Memory::write8(a, v)
\* makes Memory::read8 return v at every address b of [0x2000, 0x4000)
\* congruent to a modulo 8, b = a included.
C14_MemoryPpuMirrors ==
    [][(call'.fn = "write8" /\ call'.addr >= 8192 /\ call'.addr < 16384) =>
            \A b \in 8192..16383 :
                (b % 8) = (call'.addr % 8) =>
                    LET r == Memory_read8(memory', b)
                    IN  r.ok /\ r.val = call'.val
      ]_vars

(* --------------------------- iNES loader ------------------------------ *)

\* `reader` is the input stream: its first bytes (up to the ten of the
\* header), its length and the read position.  The bytes past the header are
\* arbitrary: a buffer filled from them is the slice [from, to) of the input.

\* std::mem::size_of::<INESHeader>()
HeaderSize == 10

\* header::flag6::TRAINER, header::flag7::PLAY_CHOICE_10
flag6_TRAINER == 4
flag7_PLAY_CHOICE_10 == 2

TRAINER_SIZE == 512
PRG_ROM_BANK_SIZE == 16384
CHR_ROM_BANK_SIZE == 8192
PLAY_CHOICE_10_SIZE == 8192

\* the outcome of filling a buffer: the slice it holds and the reader after
ReadResult(ok, from, to, r) ==
    [ok |-> ok, buf |-> [from |-> from, to |-> to], reader |-> r]

\* faulty variant: a read at the end of the input returns the bytes that are
\* left; C20 does not hold of it
read_bank_short(r, size) ==
    IF r.pos + size <= r.len
    THEN ReadResult(TRUE, r.pos, r.pos + size, [r EXCEPT !.pos = @ + size])
    ELSE ReadResult(TRUE, r.pos, r.len, [r EXCEPT !.pos = r.len])

\* INESRom::read_bank: a buffer of `size` bytes filled by read_exact, which
\* fails where fewer than `size` bytes are left
read_bank(r, size) ==
    IF r.pos + size <= r.len
    THEN ReadResult(TRUE, r.pos, r.pos + size, [r EXCEPT !.pos = @ + size])
    ELSE ReadResult(FALSE, r.pos, r.pos, r)

\* INESHeader::from_reader: ten bytes by read_exact, reinterpreted as the
\* packed struct, field after field
INESHeader_from_reader(r) ==
    IF r.pos + HeaderSize <= r.len
    THEN [ok |-> TRUE,
          header |-> [format |-> SubSeq(r.header, 1, 4),
                      prg_rom_banks |-> r.header[5],
                      chr_rom_banks |-> r.header[6],
                      flag6 |-> r.header[7],
                      flag7 |-> r.header[8],
                      prg_ram_banks |-> r.header[9],
                      flag9 |-> r.header[10]],
          reader |-> [r EXCEPT !.pos = @ + HeaderSize]]
    ELSE [ok |-> FALSE, header |-> <<>>, reader |-> r]

has_trainer(header) == BitAnd(header.flag6, flag6_TRAINER) > 0

has_play_choice_10(header) == BitAnd(header.flag7, flag7_PLAY_CHOICE_10) > 0

\* `count` banks of `size` bytes read one after another; the first read that
\* fails ends the load
RECURSIVE read_banks(_, _, _)
read_banks(r, count, size) ==
    IF count = 0 THEN [ok |-> TRUE, banks |-> <<>>, reader |-> r]
    ELSE LET b == read_bank(r, size)
             rest == read_banks(b.reader, count - 1, size)
         IN  IF ~b.ok THEN [ok |-> FALSE, banks |-> <<>>, reader |-> b.reader]
             ELSE [ok |-> rest.ok, banks |-> <<b.buf>> \o rest.banks,
                   reader |-> rest.reader]

\* Result<INESRom, Box<dyn Error>>: Err carries no ROM
Loaded(status, roms, r) == [status |-> status, rom |-> roms, reader |-> r]

\* the banks after the header, in the order from_reader reads them: the
\* trainer, the PRG banks, the CHR banks, the PlayChoice-10 block
load_banks(header, r) ==
    LET t == read_banks(r, IF has_trainer(header) THEN 1 ELSE 0, TRAINER_SIZE)
        p == read_banks(t.reader, header.prg_rom_banks, PRG_ROM_BANK_SIZE)
        c == read_banks(p.reader, header.chr_rom_banks, CHR_ROM_BANK_SIZE)
        x == read_banks(c.reader, IF has_play_choice_10(header) THEN 1 ELSE 0,
                        PLAY_CHOICE_10_SIZE)
    IN  IF ~t.ok THEN Loaded("io_error", <<>>, t.reader)
        ELSE IF ~p.ok THEN Loaded("io_error", <<>>, p.reader)
        ELSE IF ~c.ok THEN Loaded("io_error", <<>>, c.reader)
        ELSE IF ~x.ok THEN Loaded("io_error", <<>>, x.reader)
        ELSE Loaded("ok",
                    <<[header |-> header, trainer |-> t.banks,
                       play_chouice_10 |-> x.banks, prg_banks |-> p.banks,
                       chr_banks |-> c.banks]>>,
                    x.reader)

\* the format name "NES\x1A"
Magic == <<78, 69, 83, 26>>

\* faulty variant: the format name is not compared; C19 does not hold of it
INESRom_from_reader_any(r) ==
    LET h == INESHeader_from_reader(r)
    IN  IF ~h.ok THEN Loaded("io_error", <<>>, h.reader)
        ELSE load_banks(h.header, h.reader)

\* INESRom::from_reader
INESRom_from_reader(r) ==
    LET h == INESHeader_from_reader(r)
    IN  IF ~h.ok THEN Loaded("io_error", <<>>, h.reader)
        ELSE IF h.header.format # Magic
        THEN Loaded("format_error", <<>>, h.reader)
        ELSE load_banks(h.header, h.reader)

(* ------------- SpecRom: INESRom::from_reader on drawn inputs ---------- *)

\* the most PRG banks and the most CHR banks a drawn header asks for
MaxBanks == 2

\* format names: the right one, one with each kind of wrong byte, all zero
Formats == {Magic, <<78, 69, 83, 0>>, <<0, 69, 83, 26>>, <<78, 69, 84, 26>>,
            <<0, 0, 0, 0>>}

\* flag bytes: the trainer bit (PlayChoice-10 bit) alone, every other bit
\* alone set, none and all
Flag6s == {0, 4, 251, 255}
Flag7s == {0, 2, 253, 255}

Headers ==
    {f \o <<p, c, f6, f7, 0, 0>> :
        f \in Formats, p \in 0..MaxBanks, c \in 0..MaxBanks,
        f6 \in Flag6s, f7 \in Flag7s}

\* the offsets at which the header and each bank that header h asks for end
Boundaries(h) ==
    LET t == HeaderSize + (IF BitAnd(h[7], flag6_TRAINER) > 0 THEN TRAINER_SIZE ELSE 0)
        p == t + (h[5] * PRG_ROM_BANK_SIZE)
        c == p + (h[6] * CHR_ROM_BANK_SIZE)
    IN  {HeaderSize, t}
        \cup {t + (i * PRG_ROM_BANK_SIZE) : i \in 0..h[5]}
        \cup {p + (j * CHR_ROM_BANK_SIZE) : j \in 0..h[6]}
        \cup {c + (IF BitAnd(h[8], flag7_PLAY_CHOICE_10) > 0
                   THEN PLAY_CHOICE_10_SIZE ELSE 0)}

\* input lengths: empty, and one byte short of, exactly at and one byte past
\* each boundary
Lengths(h) == {0} \cup {b + d : b \in Boundaries(h), d \in {-1, 0, 1}}

\* the input of `len` bytes that starts like h
Input(h, len) ==
    [header |-> SubSeq(h, 1, IF len < HeaderSize THEN len ELSE HeaderSize),
     len |-> len, pos |-> 0]

InitRom ==
    /\ reader \in UNION {{Input(h, len) : len \in Lengths(h)} : h \in Headers}
    /\ rom = NoRom
    /\ bus = NoBus
    /\ memory = <<>>
    /\ registers = NewRegisters
    /\ cycle = 0
    /\ op = <<>>
    /\ fault = "none"
    /\ overflow_checks = TRUE
    /\ call = NoCall

\* INESRom::from_reader(reader) is called once; what a failed read_exact has
\* consumed is unspecified: nothing, or the rest of the input
Load ==
    LET res == INESRom_from_reader(reader)
    IN  /\ rom.status = "none"
        /\ rom' = [status |-> res.status, rom |-> res.rom]
        /\ reader' \in {res.reader} \cup
                        (IF res.status = "io_error"
                         THEN {[res.reader EXCEPT !.pos = reader.len]} ELSE {})
        /\ UNCHANGED <<memory, registers, cycle, op, fault, overflow_checks,
                       call, bus>>

NextRom == Load

SpecRom == InitRom /\ [][NextRom]_vars

\* C19: for every input whose ten-byte header does not begin with
\* 0x4E 0x45 0x53 0x1A, INESRom::from_reader returns a format error,
\* constructs no ROM and reads nothing past the header, whatever the bank
\* counts and the flags of the header say.
C19_SignatureGate ==
    [][(rom.status = "none" /\ rom'.status # "none"
            /\ reader.len >= HeaderSize
            /\ SubSeq(reader.header, 1, 4) # <<78, 69, 83, 26>>) =>
            /\ rom'.status = "format_error"
            /\ rom'.rom = <<>>
            /\ reader'.pos = HeaderSize
      ]_vars

\* C19 witness: an input with a wrong last format byte, whose header asks for
\* a trainer and two PRG banks and which holds them, was rejected
C19_Witness ==
    /\ rom.status = "format_error"
    /\ reader.header[4] = 0
    /\ reader.header[5] = 2
    /\ reader.header[7] = 4
    /\ reader.len >= HeaderSize + TRAINER_SIZE + (2 * PRG_ROM_BANK_SIZE)
    /\ reader.pos = HeaderSize

\* the slice of `size` bytes that starts at offset `from`
Slice(from, size) == [from |-> from, to |-> from + size]

\* C20: after a valid header, from_reader takes from the input, in this
\* order, the trainer (512 bytes, only if flagged), each PRG bank (16 KiB,
\* as many as the header counts), each CHR bank (8 KiB, likewise) and the
\* PlayChoice-10 block (8 KiB, only if flagged), each the next consecutive
\* slice of exactly its size; if the input ends before a required bank is
\* complete the load fails with an error and yields no ROM.
C20_BankLayout ==
    [][(rom.status = "none" /\ rom'.status # "none"
            /\ reader.len >= HeaderSize
            /\ SubSeq(reader.header, 1, 4) = <<78, 69, 83, 26>>) =>
            LET h == reader.header
                T == IF (h[7] \div 4) % 2 = 1 THEN 1 ELSE 0
                X == IF (h[8] \div 2) % 2 = 1 THEN 1 ELSE 0
                prg == 10 + (512 * T)
                chr == prg + (16384 * h[5])
                aux == chr + (8192 * h[6])
                end == aux + (8192 * X)
            IN  IF reader.len >= end
                THEN /\ rom'.status = "ok"
                     /\ Len(rom'.rom) = 1
                     /\ rom'.rom[1].trainer = [i \in 1..T |-> Slice(10, 512)]
                     /\ rom'.rom[1].prg_banks =
                            [i \in 1..h[5] |-> Slice(prg + (16384 * (i - 1)), 16384)]
                     /\ rom'.rom[1].chr_banks =
                            [j \in 1..h[6] |-> Slice(chr + (8192 * (j - 1)), 8192)]
                     /\ rom'.rom[1].play_chouice_10 = [i \in 1..X |-> Slice(aux, 8192)]
                     /\ reader'.pos = end
                ELSE /\ rom'.status = "io_error"
                     /\ rom'.rom = <<>>
      ]_vars

\* C20 witness: a ROM with a trainer, two PRG banks, one CHR bank and the
\* PlayChoice-10 block was loaded from an input of exactly their size
C20_Witness ==
    /\ rom.status = "ok"
    /\ Len(rom.rom[1].trainer) = 1
    /\ Len(rom.rom[1].prg_banks) = 2
    /\ Len(rom.rom[1].chr_banks) = 1
    /\ Len(rom.rom[1].play_chouice_10) = 1
    /\ reader.pos = reader.len
    /\ reader.len = 10 + 512 + (2 * 16384) + 8192 + 8192

(* ----------------- the engine from CPU::new, continued ---------------- *)

\* C21: the tick that fetches an instruction raises the program counter (a
\* 16-bit register) by 1 for a no-op and by 2 for an add-with-carry in
\* immediate, zero-page or zero-page,X mode; every later tick of the same
\* instruction, the committing one included, leaves it as it is.
C21_PcAdvanceAtFetch ==
    [][fault' = "none" =>
            IF op = <<>>
            THEN registers'.PC =
                    (registers.PC + (IF op' # <<>> /\ op'[1].op_impl = "_adc"
                                     THEN 2 ELSE 1)) % 65536
            ELSE registers'.PC = registers.PC
      ]_vars

\* C21 witness: a zero-page,X add fetched at address 1 after a one-byte
\* no-op is in its second tick, the program counter at 3 since its fetch
C21_Witness ==
    /\ cycle = 3
    /\ op # <<>>
    /\ op[1].total_cycles = 4
    /\ op[1].cycle = 2
    /\ registers.PC = 3

(* ------ SpecFlags: Registers::set_flag and _adc on every status byte ---- *)

\* accumulators and operand bytes
FlagOperands == {0, 1, 127, 128, 255}

\* the masks of enum StatusFlags
FlagMasks == {StatusFlags[f] : f \in DOMAIN StatusFlags}

\* every status byte, the operand byte stored at address 16, and X, Y and SP
\* holding values of their own
InitFlags ==
    /\ memory \in {16 :> m : m \in FlagOperands}
    /\ registers \in {[NewRegisters EXCEPT !.A = a, !.PS = p,
                                           !.X = 17, !.Y = 34, !.SP = 253] :
                        a \in FlagOperands, p \in Byte}
    /\ cycle = 0
    /\ op = <<>>
    /\ fault = "none"
    /\ overflow_checks = TRUE
    /\ call = NoCall
    /\ NoIO

\* cpu.registers.set_flag(flag, is_set) is called once
CallSetFlag ==
    \E flag \in FlagMasks, is_set \in BOOLEAN :
        /\ call.fn = "none"
        /\ registers' = set_flag(registers, flag, is_set)
        /\ call' = [call EXCEPT !.fn = "set_flag", !.val = flag,
                                !.got = IF is_set THEN 1 ELSE 0]
        /\ UNCHANGED <<memory, cycle, op, fault, overflow_checks, bus, reader, rom>>

NextFlags == CallSetFlag \/ CallAdc

SpecFlags == InitFlags /\ [][NextFlags]_vars

\* the status byte p with the bits of mask cleared
Without(p, mask) == p - BitAnd(p, mask)

\* C22: set_flag(f, b) changes no bit of the status byte outside the mask of
\* f (and makes the bit of f equal b), and an add-with-carry changes only the
\* Carry, Zero, Overflow and Negative bits of the status byte: the
\* InterruptDisable, Decimal, Break and unused bits, X, Y, the stack pointer
\* and all memory stay as they were.
C22_FlagFrame ==
    [][/\ call'.fn = "set_flag" =>
            /\ Without(registers'.PS, call'.val) = Without(registers.PS, call'.val)
            /\ BitAnd(registers'.PS, call'.val) = call'.val * call'.got
            /\ [registers' EXCEPT !.PS = 0] = [registers EXCEPT !.PS = 0]
       /\ call'.fn = "_adc" =>
            /\ (registers'.PS \div 4) % 16 = (registers.PS \div 4) % 16
            /\ registers'.X = registers.X
            /\ registers'.Y = registers.Y
            /\ registers'.SP = registers.SP
            /\ registers'.PC = registers.PC
            /\ memory' = memory
      ]_vars

\* C22 witness: an add-with-carry on a status byte with InterruptDisable,
\* Decimal, Break and the unused bit set has cleared Carry and set Negative,
\* and these four bits are still set
C22_Witness ==
    /\ call.fn = "_adc"
    /\ (registers.PS \div 4) % 16 = 15
    /\ registers.PS % 2 = 0
    /\ registers.PS >= 128
    /\ registers.X = 17

(* ------------------- the engine from CPU::new, table ------------------ *)

\* C23: a fetch of opcode byte 0x69 starts an add-with-carry in immediate
\* mode (2 cycles), of 0x65 one in zero-page mode (3 cycles), of 0x75 one in
\* zero-page,X mode (4 cycles); the fetch of every other byte runs the no-op
\* placeholder, which ends in that tick and changes only the program counter.
C23_OpcodeEncoding ==
    [][(op = <<>> /\ fault' = "none") =>
            LET b == OpcodeAtPC
            IN  IF b \in {105, 101, 117}
                THEN /\ op' # <<>>
                     /\ op'[1].op_impl = "_adc"
                     /\ op'[1].total_cycles =
                            (CASE b = 105 -> 2 [] b = 101 -> 3 [] b = 117 -> 4)
                ELSE /\ op' = <<>>
                     /\ registers' = [registers EXCEPT !.PC = @ + 1]
      ]_vars

\* the engine is idle, or holds one instruction with 1 <= elapsed < total
InFlightOk ==
    \/ op = <<>>
    \/ /\ Len(op) = 1
       /\ 1 <= op[1].cycle
       /\ op[1].cycle < op[1].total_cycles

\* C24: in every state between ticks the engine is idle or holds exactly one
\* in-flight instruction whose elapsed cycles c and budget t satisfy
\* 1 <= c < t; while an instruction stays in flight its budget and its
\* resolved operand location do not change and c grows by one a tick; and the
\* cycle counter, 0 at construction, grows by one with every tick made.
C24_InFlightInvariant ==
    /\ InFlightOk
    /\ cycle = 0
    /\ [][/\ InFlightOk'
          /\ (op # <<>> /\ op' # <<>>) =>
                /\ op'[1].total_cycles = op[1].total_cycles
                /\ op'[1].operand = op[1].operand
                /\ op'[1].op_impl = op[1].op_impl
                /\ op'[1].cycle = op[1].cycle + 1
          /\ fault' = "none" => cycle' = cycle + 1
         ]_vars

\* C24 witness: after eight ticks a zero-page,X add is in flight with three
\* of its four cycles elapsed
C24_Witness ==
    /\ cycle = 8
    /\ op # <<>>
    /\ op[1].cycle = 3
    /\ op[1].total_cycles = 4
    /\ op[1].operand.kind = "AtAddress"

\* the panics of Value::get and Value::set on the Invalid location
InvalidOperandPanics ==
    {"Unable to read: location is invalid", "Unable to write: location is invalid"}

\* a CPU as CPU::new builds it, over a zero-filled Memory
FreshCpu ==
    [memory |-> <<>>, registers |-> NewRegisters, cycle |-> 0, op |-> <<>>,
     fault |-> "none", overflow_checks |-> TRUE]

\* the factories that the 256 entries of the dispatch table name
TableEntries == {OPCODE_MAP[b] : b \in 0..255}

\* C25: from CPU::new over any memory image and after any number of ticks no
\* tick has failed on the invalid operand location and no in-flight
\* instruction holds it, because the instruction that each of the 256 table
\* entries builds either has a resolved operand location or has a semantic
\* function that leaves the CPU as it is without touching its operand.
C25_InvalidUnreachable ==
    /\ \A op_factory \in TableEntries :
            LET f == Factory(op_factory, FreshCpu)
            IN  (f.op # <<>> /\ f.op[1].operand = Invalid) =>
                    /\ f.op[1].op_impl = "nop"
                    /\ OpImpl(f.op[1].op_impl, f.cpu, Invalid) = f.cpu
    /\ fault \notin InvalidOperandPanics
    /\ op = <<>>
    /\ [][/\ fault' \notin InvalidOperandPanics
          /\ op' # <<>> => op'[1].operand # Invalid
         ]_vars

\* C25 witness: two opcode bytes dispatched with the None addressing mode
\* have run, one tick each, and the program is alive
C25_Witness ==
    /\ cycle = 2
    /\ op = <<>>
    /\ registers.PC = 2
    /\ Cell(memory, 0) = 234
    /\ Cell(memory, 1) = 0
    /\ fault = "none"

(* ---------------- the Memory from Memory::new, continued --------------- *)

\* addresses a and b name the same storage: the same address, the same offset
\* into the 2 KiB RAM image, or the same one of the eight PPU registers
Alias(a, b) ==
    \/ a = b
    \/ a < 8192 /\ b < 8192 /\ (a % 2048) = (b % 2048)
    \/ /\ a >= 8192 /\ a < 16384
       /\ b >= 8192 /\ b < 16384
       /\ (a % 8) = (b % 8)

\* the addresses read back around a write: the addresses written, the first
\* sixteen of the PPU range, its last eight and the sixteen after it
FrameAddrs == MemAddrs \cup (8192..8207) \cup (16376..16399)

\* C26: Memory::write8(a, v) changes what Memory::read8(b) returns only at
\* addresses b that alias a; at every other address read8 returns what it
\* returned before the write.
C26_MemoryWriteFrame ==
    [][(call'.fn = "write8" /\ fault' = "none") =>
            \A b \in FrameAddrs :
                ~Alias(call'.addr, b) =>
                    Memory_read8(memory', b) = Memory_read8(memory, b)
      ]_vars

\* C27: on a Memory built by Memory::new, read8(a) and write8(a, v) complete
\* without failure for every address a of [0x0000, 0xFFFF].
C27_MemoryTotal ==
    [][call'.fn \in {"write8", "read8"} => fault' = "none"]_vars

====
